---- MODULE Spec2Model ----
(***************************************************************************)
(* Job lifecycle and progress tracking of the video downloader backend.    *)
(*                                                                         *)
(* The repository holds three overlapping revisions of the service:        *)
(*   "main" : main.py, the job API (download_video, progress_hook,         *)
(*            download_in_background, get_progress) over download_progress *)
(*   "vd"   : download.py, class VideoDownloader over self.progress_data   *)
(*   "app"  : app.py with download.py's download_audio / download_video,   *)
(*            the synchronous download endpoint, and the sweeper of        *)
(*            utils.py (clean_old_files, schedule_file_cleanup)            *)
(* One behaviour runs one revision; the revision is drawn in Init.         *)
(*                                                                         *)
(* Every handler of the three revisions is an `async def` without a single *)
(* await around the blocking calls of the external tool, so a running job  *)
(* occupies the event loop from its first statement to its last: request   *)
(* handlers are enabled only while no job is running (LoopFree).  The      *)
(* steps of a job are still separate actions, because the file system and  *)
(* the registry pass through the intermediate states.                      *)
(*                                                                         *)
(* The clock is the sequence of the readings of time.time(): a reading is  *)
(* no earlier than the one before it.  Durations (the interval of the      *)
(* sweeper's sleep) are not modelled.                                      *)
(*                                                                         *)
(* Not modelled: the pass-through payload fields of a progress record      *)
(* (downloaded, total, speed, eta, filename) and file sizes.               *)
(***************************************************************************)
EXTENDS Integers, Sequences, FiniteSets, TLC

\* ------------------------------------------------------------------ bounds
MaxJobs == 2          \* download ids the uuid generator hands out
MaxTime == 1          \* time.time() returns a second in 0..MaxTime
MaxToolSteps == 2     \* callbacks and file writes of the tool in one behaviour
MaxBytes == 1         \* byte counts reported by a callback

JobIds == 1..MaxJobs
StaleId == 0          \* a download id that was never created
NoId == -1            \* payload without info_dict / __download_id
None == -1            \* Python None in a numeric payload field
Missing == -2         \* key absent from the payload

Services == {"main", "vd", "app"}
Urls == {"", "urlA"}
Formats == {"mp3", "mp4", "webm"}
Languages == {"en", "zh"}
\* extensions of the files the tool writes: the container the options ask
\* for (preferredcodec mp3, merge_output_format mp4) or the extension of the
\* source, which the tool takes from the source as it is spelled there
ToolExts(format_choice) ==
    IF format_choice = "mp3" THEN {".mp3", ".webm"} ELSE {".mp4", ".webm", ".MP4"}
Diags == {"ERROR: Video unavailable"}

\* title reported by extract_info for a URL
TitleOf(url) == IF url = "urlA" THEN "titleA" ELSE "titleB"

VARIABLES
    service,            \* the revision that is running
    FFMPEG_AVAILABLE,   \* result of check_ffmpeg() at import
    now,                \* last value returned by time.time()
    nextId,             \* next download id of uuid.uuid4()
    req,                \* req[j]: url, format, language of the task of job j
                        \* (its arguments: NoReq before it is queued and after
                        \* it has returned)
    pc,                 \* pc[j]: position of job j
    download_progress,  \* main.py: the module-level registry
    progress_data,      \* download.py: VideoDownloader.progress_data
    tempdir,            \* tempdir[j]: <<>> or <<files of DOWNLOAD_DIR/j>>
    shared,             \* regular files directly in DOWNLOAD_DIR, each with the
                        \* clock reading that was current at its last write
    toolSteps,          \* callbacks and file writes the tool may still make
    response,           \* what the handler of the last step returned
    accepted,           \* jobs whose creation request returned their id
    toolOutcome,        \* toolOutcome[j]: how the tool invocation of job j went
    finalName,          \* finalName[j]: <<>> or <<name the job moved to>>
    cleanup_task        \* app.py: the task of schedule_file_cleanup

jobVars == <<req, pc, tempdir, toolSteps, toolOutcome, finalName>>
vars == <<service, FFMPEG_AVAILABLE, now, nextId, req, pc, download_progress,
          progress_data, tempdir, shared, toolSteps, response, accepted,
          toolOutcome, finalName, cleanup_task>>

\* ------------------------------------------------------------ registry
\* localized messages; the Chinese literals are written as "zh: ..." tokens
PreparingMsg(language) ==
    IF language = "zh" THEN "zh: preparing download" ELSE "Preparing download..."
ProcessingMsg(language) ==
    IF language = "zh" THEN "zh: processing" ELSE "Processing..."
HookErrorDefault(language) ==
    IF language = "zh" THEN "zh: download error" ELSE "Download error"
NoFileMsg(language) ==
    IF language = "zh" THEN "zh: download completed but no file found"
    ELSE "Download completed but no file found"
CompleteMsg(language) ==
    IF language = "zh" THEN "zh: download complete" ELSE "Download complete"
FfmpegMsg(language) ==
    IF language = "en" THEN "FFmpeg not installed. Cannot convert to MP3."
    ELSE "zh: ffmpeg not installed"

\* the record a job starts with; file = <<>> is the absent 'file' key
NewRecord(language) ==
    [status |-> "starting", percent |-> "0%",
     message |-> PreparingMsg(language), language |-> language, file |-> <<>>]

NotFound == [status |-> "not_found", message |-> "Download not found"]

\* variant of Fmt1 that renders whole percents
Fmt1_whole(downloaded, total) ==
    ToString((100 * downloaded) \div total) \o "%"

\* f"{percent:.1f}%" of (downloaded / total) * 100, rounding half to even
Fmt1(downloaded, total) ==
    LET q == (1000 * downloaded) \div total
        r == (1000 * downloaded) % total
        tenths == IF 2 * r > total THEN q + 1
                  ELSE IF 2 * r < total THEN q
                  ELSE IF q % 2 = 0 THEN q ELSE q + 1
    IN ToString(tenths \div 10) \o "." \o ToString(tenths % 10) \o "%"

\* str(KeyError(download_id))
KeyErrorMsg(id) == "'" \o ToString(id) \o "'"
TypeErrorMsg == "'>' not supported between instances of 'NoneType' and 'int'"

\* ----------------------------------------------------- callback payloads
\* the dictionaries d the external tool hands to a progress hook while it
\* serves job j: the id it carries is j's, a stale one, or none
PayloadIds(j) == {j, StaleId, NoId}
Payloads(j) ==
    {d \in [status : {"downloading"}, id : PayloadIds(j),
            downloaded_bytes : 0..MaxBytes,
            total_bytes : {None} \cup 0..MaxBytes,
            total_bytes_estimate : {Missing, None} \cup 0..MaxBytes,
            error : {<<>>}] :
        \* a field that the hooks do not read for this payload has one value:
        \* the estimate next to a total above zero, the byte count of a
        \* payload for another id, every number of a payload without id
        /\ d.total_bytes \notin {None, 0} => d.total_bytes_estimate = Missing
        /\ d.id # j => d.downloaded_bytes = 0
        /\ d.id = NoId => (d.total_bytes = None /\ d.total_bytes_estimate = Missing)}
    \cup
    [status : {"finished"}, id : PayloadIds(j),
     downloaded_bytes : {0}, total_bytes : {None},
     total_bytes_estimate : {Missing}, error : {<<>>}]
    \cup
    [status : {"error"}, id : PayloadIds(j),
     downloaded_bytes : {0}, total_bytes : {None},
     total_bytes_estimate : {Missing},
     error : {<<>>} \cup {<<m>> : m \in Diags}]

\* d.get('total_bytes') or d.get('total_bytes_estimate', 0)
TotalBytes(d) ==
    IF d.total_bytes # None /\ d.total_bytes # 0 THEN d.total_bytes
    ELSE IF d.total_bytes_estimate = Missing THEN 0
    ELSE d.total_bytes_estimate

\* d.get('error', default)
ErrorOf(d, default) == IF d.error = <<>> THEN default ELSE d.error[1]

\* variant of main_progress_hook that writes to every record
main_progress_hook_every_record(reg, d) ==
    [reg |-> [k \in DOMAIN reg |-> [reg[k] EXCEPT !.status = "processing"]],
     raised |-> <<>>]

\* main.py progress_hook on registry reg: the registry it leaves and the
\* exception it raises (<<>> when it returns normally)
main_progress_hook(reg, d) ==
    LET id == d.id
        same == [reg |-> reg, raised |-> <<>>]
        keyError == [reg |-> reg, raised |-> <<KeyErrorMsg(id)>>]
    IN IF id = NoId THEN same
       ELSE IF d.status = "downloading" THEN
           IF TotalBytes(d) = None
           THEN [reg |-> reg, raised |-> <<TypeErrorMsg>>]
           ELSE IF TotalBytes(d) > 0 THEN
               IF id \notin DOMAIN reg THEN keyError
               ELSE [reg |-> [reg EXCEPT ![id].status = "downloading",
                                         ![id].percent =
                                             Fmt1(d.downloaded_bytes, TotalBytes(d))],
                     raised |-> <<>>]
           ELSE same
       ELSE IF d.status = "finished" THEN
           IF id \notin DOMAIN reg THEN keyError
           ELSE [reg |-> [reg EXCEPT ![id].status = "processing",
                                     ![id].percent = "100%",
                                     ![id].message = ProcessingMsg(reg[id].language)],
                 raised |-> <<>>]
       ELSE IF d.status = "error" THEN
           IF id \notin DOMAIN reg THEN keyError
           ELSE [reg |-> [reg EXCEPT ![id].status = "error",
                                     ![id].message =
                                         ErrorOf(d, HookErrorDefault(reg[id].language))],
                 raised |-> <<>>]
       ELSE same

\* ---------------------------------------------------------- file system
\* a final name f"{timestamp}_{file_name}{file_ext}" kept as its three parts
\* (the prefix is the digits before the first underscore, the extension the
\* part from the last period: equal strings have equal parts)
FileName(prefix, stem, ext) == [prefix |-> prefix, stem |-> stem, ext |-> ext]

\* str.lower() on the extensions the tool produces
Lower(ext) == IF ext = ".MP4" THEN ".mp4" ELSE IF ext = ".MP3" THEN ".mp3" ELSE ext

\* variant of EnforcedExt that keeps the extension of the tool's file
EnforcedExt_kept(format_choice, file_ext) == file_ext

\* lines 230-234 of main.py (312-316 of download.py): the enforced extension
EnforcedExt(format_choice, file_ext) ==
    IF format_choice = "mp3" /\ ~(Lower(file_ext) = ".mp3") THEN ".mp3"
    ELSE IF format_choice = "mp4" /\ ~(Lower(file_ext) = ".mp4") THEN ".mp4"
    ELSE file_ext

\* a directory entry written at name n replaces the entry of that name
Put(dir, f) == {g \in dir : g.name # f.name} \cup {f}

\* f"/api/download/{final_filename}"
UrlOf(name) == <<"/api/download/", name>>

\* the 'file' entry of a completed record
FileEntry(name) == [name |-> name, path |-> <<"DOWNLOAD_DIR", name>>, url |-> UrlOf(name)]

\* --------------------------------------------------------- event loop
\* positions in which a job is executing on the event loop
RunningPcs == {"tool", "locate", "moved"}
Running(j) == pc[j] \in RunningPcs
LoopFree == \A j \in JobIds : ~Running(j)

\* app.py: the server takes requests until its shutdown event
Serving == cleanup_task # "cancelled"

\* how a tool invocation went: none, in_flight, returned, or raised with the
\* message of the exception that left it
Outcome(result, diag) == [result |-> result, diag |-> diag]

NoResponse == [handler |-> "none"]
NoReq == [url |-> "", format |-> "", language |-> ""]

Init ==
    /\ service \in Services
    /\ FFMPEG_AVAILABLE \in BOOLEAN
    /\ now = 0
    /\ nextId = 1
    /\ req = [j \in JobIds |-> NoReq]
    /\ pc = [j \in JobIds |-> "new"]
    /\ download_progress = <<>>
    /\ progress_data = <<>>
    /\ tempdir = [j \in JobIds |-> <<>>]
    /\ shared = {}
    /\ toolSteps = MaxToolSteps
    /\ response = NoResponse
    /\ accepted = {}
    /\ toolOutcome = [j \in JobIds |-> Outcome("none", "")]
    /\ finalName = [j \in JobIds |-> <<>>]
    \* startup_event of app.py (lines 48-56) has created the task, which
    \* waits in its first asyncio.sleep; main.py has no such task
    /\ cleanup_task = IF service = "app" THEN "sleeping" ELSE "none"

\* ------------------------------------------------- main.py: the job API
\* responses of the request handlers
Rejected(handler, code, message) ==
    [handler |-> handler, code |-> code, download_id |-> NoId,
     body |-> <<[success |-> FALSE, message |-> message]>>]
Created(handler, id) ==
    [handler |-> handler, code |-> 200, download_id |-> id,
     body |-> <<[success |-> TRUE]>>]
Polled(id, record) ==
    [handler |-> "get_progress", code |-> 200, download_id |-> id,
     body |-> <<record>>]

\* POST /api/download: lines 120-200 of main.py
main_download_video(url, format_choice) ==
    /\ service = "main"
    /\ LoopFree
    /\ IF url = "" THEN
           /\ response' = Rejected("download_video", 400, "URL is required")
           /\ UNCHANGED <<nextId, req, pc, download_progress, tempdir, accepted>>
       ELSE
           /\ nextId <= MaxJobs
           /\ LET download_id == nextId
                  created == download_progress @@ (download_id :> NewRecord("en"))
              IN /\ nextId' = nextId + 1
                 /\ \E makedirs_ok \in BOOLEAN :
                      IF ~makedirs_ok THEN
                          \* except Exception (lines 191-200)
                          /\ download_progress' =
                                 [created EXCEPT ![download_id].status = "error",
                                                 ![download_id].message = "OSError: makedirs"]
                          /\ pc' = [pc EXCEPT ![download_id] = "failed"]
                          /\ response' = Rejected("download_video", 500, "Error: OSError: makedirs")
                          /\ UNCHANGED <<req, tempdir, accepted>>
                      ELSE IF format_choice = "mp3" /\ ~FFMPEG_AVAILABLE THEN
                          /\ download_progress' = created
                          /\ tempdir' = [tempdir EXCEPT ![download_id] = <<{}>>]
                          /\ pc' = [pc EXCEPT ![download_id] = "rejected"]
                          /\ response' = Rejected("download_video", 400,
                                                  "FFmpeg not installed. Cannot convert to MP3.")
                          /\ UNCHANGED <<req, accepted>>
                      ELSE
                          /\ download_progress' = created
                          /\ tempdir' = [tempdir EXCEPT ![download_id] = <<{}>>]
                          /\ pc' = [pc EXCEPT ![download_id] = "queued"]
                          /\ response' = Created("download_video", download_id)
                          /\ accepted' = accepted \cup {download_id}
                          \* the arguments of the background task
                          /\ req' = [req EXCEPT ![download_id] =
                                 [url |-> url, format |-> format_choice, language |-> "en"]]
    /\ UNCHANGED <<cleanup_task, service, FFMPEG_AVAILABLE, now, progress_data, shared, toolSteps,
                   toolOutcome, finalName>>

\* GET /api/progress/{download_id}: lines 269-273 of main.py
main_get_progress(download_id) ==
    IF download_id \in DOMAIN download_progress
    THEN download_progress[download_id] ELSE NotFound

main_get_progress_request(download_id) ==
    /\ service = "main"
    /\ LoopFree
    /\ response' = Polled(download_id, main_get_progress(download_id))
    /\ UNCHANGED <<cleanup_task, service, FFMPEG_AVAILABLE, now, nextId, download_progress,
                   progress_data, shared, accepted, jobVars>>

\* variant of main_no_file_update that reports success for an empty directory
main_no_file_update_completes(reg, download_id) ==
    [reg EXCEPT ![download_id].status = "completed",
                ![download_id].message = CompleteMsg(reg[download_id].language)]

\* lines 217-221 of main.py: the update of the empty temp directory
main_no_file_update(reg, download_id) ==
    [reg EXCEPT ![download_id].status = "error",
                ![download_id].message = NoFileMsg(reg[download_id].language)]

\* variant of main_completed_update that leaves out the 'file' entry
main_completed_update_without_file(reg, download_id, final_filename) ==
    [reg EXCEPT ![download_id].status = "completed",
                ![download_id].percent = "100%",
                ![download_id].message = CompleteMsg(reg[download_id].language)]

\* lines 250-260 of main.py
main_completed_update(reg, download_id, final_filename) ==
    [reg EXCEPT ![download_id].status = "completed",
                ![download_id].percent = "100%",
                ![download_id].message = CompleteMsg(reg[download_id].language),
                ![download_id].file = <<FileEntry(final_filename)>>]

\* variant of main_except_update that swallows the exception
main_except_update_swallowed(reg, download_id, e) == reg

\* lines 262-267 of main.py: except Exception as e, on registry reg
main_except_update(reg, download_id, e) ==
    [reg EXCEPT ![download_id].status = "error", ![download_id].message = e]

\* an exception e raised inside the try of download_in_background reaches
\* its handler at once and ends the task
main_except(j, reg, e) ==
    /\ download_progress' = main_except_update(reg, j, e)
    /\ pc' = [pc EXCEPT ![j] = "done"]
    /\ req' = [req EXCEPT ![j] = NoReq]

\* download_in_background, lines 203-207: the task starts and extract_info
\* returns the title or raises
main_background_start(j) ==
    /\ service = "main"
    /\ pc[j] = "queued"
    /\ LoopFree
    /\ \E info \in {"ok"} \cup Diags :
         IF info = "ok" THEN
             /\ pc' = [pc EXCEPT ![j] = "tool"]
             /\ toolOutcome' = [toolOutcome EXCEPT ![j] = Outcome("in_flight", "")]
             /\ UNCHANGED <<download_progress, req>>
         ELSE
             /\ main_except(j, download_progress, info)
             /\ toolOutcome' = [toolOutcome EXCEPT ![j] = Outcome("raised", info)]
    /\ response' = NoResponse
    /\ UNCHANGED <<cleanup_task, service, FFMPEG_AVAILABLE, now, nextId, progress_data,
                   tempdir, shared, toolSteps, accepted, finalName>>

\* the external tool, inside ydl.download (main.py 211, download.py 294):
\* it writes a file of the output template into the job's temp directory
tool_write(j, ext) ==
    /\ service \in {"main", "vd"}
    /\ pc[j] = "tool"
    /\ toolSteps > 0
    /\ toolSteps' = toolSteps - 1
    /\ tempdir[j] # <<>>
    /\ \A f \in tempdir[j][1] : f.ext # ext
    /\ tempdir' = [tempdir EXCEPT ![j] =
           <<tempdir[j][1] \cup {[stem |-> TitleOf(req[j].url), ext |-> ext,
                                  complete |-> FALSE]}>>]
    /\ response' = NoResponse
    /\ UNCHANGED <<cleanup_task, service, FFMPEG_AVAILABLE, now, nextId, req, pc, download_progress,
                   progress_data, shared, accepted, toolOutcome, finalName>>

\* the external tool returns from ydl.download: its files are finished
tool_return(j) ==
    /\ service \in {"main", "vd"}
    /\ pc[j] = "tool"
    /\ pc' = [pc EXCEPT ![j] = "locate"]
    /\ tempdir' = [tempdir EXCEPT ![j] =
           IF tempdir[j] = <<>> THEN <<>>
           ELSE <<{[f EXCEPT !.complete = TRUE] : f \in tempdir[j][1]}>>]
    /\ toolOutcome' = [toolOutcome EXCEPT ![j] = Outcome("returned", "")]
    /\ response' = NoResponse
    /\ UNCHANGED <<cleanup_task, service, FFMPEG_AVAILABLE, now, nextId, req, download_progress,
                   progress_data, shared, toolSteps, accepted, finalName>>

\* line 211 of main.py: ydl.download raises DownloadError with the tool's
\* diagnostic
main_tool_raise(j, diag) ==
    /\ service = "main"
    /\ pc[j] = "tool"
    /\ main_except(j, download_progress, diag)
    /\ toolOutcome' = [toolOutcome EXCEPT ![j] = Outcome("raised", diag)]
    /\ response' = NoResponse
    /\ UNCHANGED <<cleanup_task, service, FFMPEG_AVAILABLE, now, nextId, progress_data,
                   tempdir, shared, toolSteps, accepted, finalName>>

\* the tool calls progress_hook(d) (line 151 of main.py); an exception of the
\* hook leaves ydl.download and reaches the handler of download_in_background
main_tool_callback(j, d) ==
    /\ service = "main"
    /\ pc[j] = "tool"
    /\ toolSteps > 0
    /\ toolSteps' = toolSteps - 1
    /\ LET r == main_progress_hook(download_progress, d)
       IN IF r.raised = <<>> THEN
              /\ download_progress' = r.reg
              /\ UNCHANGED <<pc, req, toolOutcome>>
          ELSE
              /\ main_except(j, r.reg, r.raised[1])
              /\ toolOutcome' = [toolOutcome EXCEPT ![j] = Outcome("raised", r.raised[1])]
    /\ response' = NoResponse
    /\ UNCHANGED <<cleanup_task, service, FFMPEG_AVAILABLE, now, nextId, progress_data,
                   tempdir, shared, accepted, finalName>>

\* lines 213-240 of main.py: list the temp directory, name the first entry
\* (os.listdir has no order) and move it into DOWNLOAD_DIR
main_locate_and_move(j) ==
    /\ service = "main"
    /\ pc[j] = "locate"
    /\ response' = NoResponse
    /\ IF tempdir[j][1] = {} THEN
           /\ download_progress' = main_no_file_update(download_progress, j)
           /\ pc' = [pc EXCEPT ![j] = "done"]
           /\ req' = [req EXCEPT ![j] = NoReq]
           /\ UNCHANGED <<now, tempdir, shared, finalName>>
       ELSE
           \E f \in tempdir[j][1], timestamp \in now..MaxTime, move_ok \in BOOLEAN :
               LET final_filename ==
                       FileName(ToString(timestamp), f.stem, EnforcedExt(req[j].format, f.ext))
               IN /\ now' = timestamp
                  /\ IF move_ok THEN
                         /\ shared' = Put(shared, [name |-> final_filename, owner |-> j,
                                                   complete |-> f.complete,
                                                   mtime |-> now])
                         /\ tempdir' = [tempdir EXCEPT ![j] = <<tempdir[j][1] \ {f}>>]
                         /\ finalName' = [finalName EXCEPT ![j] = <<final_filename>>]
                         /\ pc' = [pc EXCEPT ![j] = "moved"]
                         /\ UNCHANGED <<download_progress, req>>
                     ELSE
                         /\ main_except(j, download_progress, "OSError: move")
                         /\ UNCHANGED <<shared, tempdir, finalName>>
    /\ UNCHANGED <<cleanup_task, service, FFMPEG_AVAILABLE, nextId, progress_data, toolSteps,
                   accepted, toolOutcome>>

\* lines 242-260 of main.py: rmtree, getsize, completed
main_complete(j) ==
    /\ service = "main"
    /\ pc[j] = "moved"
    /\ response' = NoResponse
    /\ tempdir' = [tempdir EXCEPT ![j] = <<>>]
    /\ download_progress' = main_completed_update(download_progress, j, finalName[j][1])
    /\ pc' = [pc EXCEPT ![j] = "done"]
    /\ req' = [req EXCEPT ![j] = NoReq]
    /\ UNCHANGED <<cleanup_task, service, FFMPEG_AVAILABLE, now, nextId, progress_data, shared,
                   toolSteps, accepted, toolOutcome, finalName>>

\* ------------------------------------- download.py: class VideoDownloader
\* VideoDownloader.progress_hook, lines 191-224 of download.py
vd_progress_hook(reg, d) ==
    LET id == d.id
        same == [reg |-> reg, raised |-> <<>>]
    IN IF id = NoId \/ id \notin DOMAIN reg THEN same
       ELSE IF d.status = "downloading" THEN
           IF TotalBytes(d) = None
           THEN [reg |-> reg, raised |-> <<TypeErrorMsg>>]
           ELSE IF TotalBytes(d) > 0 THEN
               [reg |-> [reg EXCEPT ![id].status = "downloading",
                                    ![id].percent =
                                        Fmt1(d.downloaded_bytes, TotalBytes(d))],
                raised |-> <<>>]
           ELSE same
       ELSE IF d.status = "finished" THEN
           [reg |-> [reg EXCEPT ![id].status = "processing",
                                ![id].percent = "100%",
                                ![id].message = ProcessingMsg(reg[id].language)],
            raised |-> <<>>]
       ELSE IF d.status = "error" THEN
           [reg |-> [reg EXCEPT ![id].status = "error",
                                ![id].message =
                                    ErrorOf(d, HookErrorDefault(reg[id].language))],
            raised |-> <<>>]
       ELSE same

\* VideoDownloader.get_progress, lines 185-189 of download.py
vd_get_progress(download_id) ==
    IF download_id \in DOMAIN progress_data
    THEN progress_data[download_id] ELSE NotFound

vd_get_progress_request(download_id) ==
    /\ service = "vd"
    /\ LoopFree
    /\ response' = Polled(download_id, vd_get_progress(download_id))
    /\ UNCHANGED <<cleanup_task, service, FFMPEG_AVAILABLE, now, nextId, download_progress,
                   progress_data, shared, accepted, jobVars>>

\* variant of vd_no_file_update that attaches a result to the failed job
vd_no_file_update_with_file(reg, download_id, language) ==
    [reg EXCEPT ![download_id].status = "error",
                ![download_id].message = NoFileMsg(language),
                ![download_id].file = <<FileEntry(FileName("0", "", ""))>>]

\* lines 300-303 of download.py
vd_no_file_update(reg, download_id, language) ==
    [reg EXCEPT ![download_id].status = "error",
                ![download_id].message = NoFileMsg(language)]

\* variant of vd_completed_update that drops the record of a finished job
vd_completed_update_forgets(reg, download_id, final_filename, language) ==
    [k \in DOMAIN reg \ {download_id} |-> reg[k]]

\* lines 332-342 of download.py
vd_completed_update(reg, download_id, final_filename, language) ==
    [reg EXCEPT ![download_id].status = "completed",
                ![download_id].percent = "100%",
                ![download_id].message = CompleteMsg(language),
                ![download_id].file = <<FileEntry(final_filename)>>]

\* variant of vd_except_update that drops the message of the exception
vd_except_update_generic(reg, download_id, e) ==
    [reg EXCEPT ![download_id].status = "error",
                ![download_id].message = HookErrorDefault(reg[download_id].language)]

\* lines 346-349 of download.py
vd_except_update(reg, download_id, e) ==
    [reg EXCEPT ![download_id].status = "error", ![download_id].message = e]

\* lines 344-352 of download.py: the inner handler records the error and
\* removes the temp directory
vd_except(j, reg, e) ==
    /\ progress_data' = vd_except_update(reg, j, e)
    /\ pc' = [pc EXCEPT ![j] = "done"]
    /\ req' = [req EXCEPT ![j] = NoReq]
    /\ tempdir' = [tempdir EXCEPT ![j] = <<>>]

\* VideoDownloader.download_video, lines 236-290 of download.py: the task is
\* started for a fresh download id, creates the record and the temp
\* directory, selects the options and asks the tool for the title
vd_download_video_start(url, format_choice, language) ==
    /\ service = "vd"
    /\ LoopFree
    /\ nextId <= MaxJobs
    /\ LET download_id == nextId
           created == progress_data @@ (download_id :> NewRecord(language))
       IN /\ nextId' = nextId + 1
          /\ accepted' = accepted \cup {download_id}
          /\ \E makedirs_ok \in BOOLEAN, info \in {"ok"} \cup Diags :
               IF ~makedirs_ok THEN
                   \* the outer handler, lines 354-360
                   /\ progress_data' = vd_except_update(created, download_id,
                                                        "OSError: makedirs")
                   /\ pc' = [pc EXCEPT ![download_id] = "done"]
                   /\ UNCHANGED <<req, tempdir, toolOutcome>>
               ELSE IF format_choice = "mp3" /\ ~FFMPEG_AVAILABLE THEN
                   /\ progress_data' =
                          [created EXCEPT ![download_id].status = "error",
                                          ![download_id].message = FfmpegMsg(language)]
                   /\ tempdir' = [tempdir EXCEPT ![download_id] = <<{}>>]
                   /\ pc' = [pc EXCEPT ![download_id] = "done"]
                   /\ UNCHANGED <<req, toolOutcome>>
               ELSE IF info = "ok" THEN
                   /\ progress_data' = created
                   /\ tempdir' = [tempdir EXCEPT ![download_id] = <<{}>>]
                   /\ pc' = [pc EXCEPT ![download_id] = "tool"]
                   /\ req' = [req EXCEPT ![download_id] =
                          [url |-> url, format |-> format_choice, language |-> language]]
                   /\ toolOutcome' = [toolOutcome EXCEPT ![download_id] = Outcome("in_flight", "")]
               ELSE
                   /\ vd_except(download_id, created, info)
                   /\ toolOutcome' = [toolOutcome EXCEPT ![download_id] =
                                          Outcome("raised", info)]
    /\ response' = NoResponse
    /\ UNCHANGED <<cleanup_task, service, FFMPEG_AVAILABLE, now, download_progress, shared,
                   toolSteps, finalName>>

\* line 294 of download.py: ydl.download raises DownloadError
vd_tool_raise(j, diag) ==
    /\ service = "vd"
    /\ pc[j] = "tool"
    /\ vd_except(j, progress_data, diag)
    /\ toolOutcome' = [toolOutcome EXCEPT ![j] = Outcome("raised", diag)]
    /\ response' = NoResponse
    /\ UNCHANGED <<cleanup_task, service, FFMPEG_AVAILABLE, now, nextId, download_progress,
                   shared, toolSteps, accepted, finalName>>

\* the tool calls self.progress_hook(d) (line 252 of download.py)
vd_tool_callback(j, d) ==
    /\ service = "vd"
    /\ pc[j] = "tool"
    /\ toolSteps > 0
    /\ toolSteps' = toolSteps - 1
    /\ LET r == vd_progress_hook(progress_data, d)
       IN IF r.raised = <<>> THEN
              /\ progress_data' = r.reg
              /\ UNCHANGED <<pc, req, tempdir, toolOutcome>>
          ELSE
              /\ vd_except(j, r.reg, r.raised[1])
              /\ toolOutcome' = [toolOutcome EXCEPT ![j] = Outcome("raised", r.raised[1])]
    /\ response' = NoResponse
    /\ UNCHANGED <<cleanup_task, service, FFMPEG_AVAILABLE, now, nextId, download_progress,
                   shared, accepted, finalName>>

\* lines 296-322 of download.py
vd_locate_and_move(j) ==
    /\ service = "vd"
    /\ pc[j] = "locate"
    /\ response' = NoResponse
    /\ IF tempdir[j][1] = {} THEN
           /\ progress_data' = vd_no_file_update(progress_data, j, req[j].language)
           /\ pc' = [pc EXCEPT ![j] = "done"]
           /\ req' = [req EXCEPT ![j] = NoReq]
           /\ UNCHANGED <<now, tempdir, shared, finalName>>
       ELSE
           \E f \in tempdir[j][1], timestamp \in now..MaxTime, move_ok \in BOOLEAN :
               LET final_filename ==
                       FileName(ToString(timestamp), f.stem, EnforcedExt(req[j].format, f.ext))
               IN /\ now' = timestamp
                  /\ IF move_ok THEN
                         /\ shared' = Put(shared, [name |-> final_filename, owner |-> j,
                                                   complete |-> f.complete,
                                                   mtime |-> now])
                         /\ tempdir' = [tempdir EXCEPT ![j] = <<tempdir[j][1] \ {f}>>]
                         /\ finalName' = [finalName EXCEPT ![j] = <<final_filename>>]
                         /\ pc' = [pc EXCEPT ![j] = "moved"]
                         /\ UNCHANGED <<progress_data, req>>
                     ELSE
                         /\ vd_except(j, progress_data, "OSError: move")
                         /\ UNCHANGED <<shared, finalName>>
    /\ UNCHANGED <<cleanup_task, service, FFMPEG_AVAILABLE, nextId, download_progress, toolSteps,
                   accepted, toolOutcome>>

\* lines 324-342 of download.py
vd_complete(j) ==
    /\ service = "vd"
    /\ pc[j] = "moved"
    /\ response' = NoResponse
    /\ tempdir' = [tempdir EXCEPT ![j] = <<>>]
    /\ progress_data' = vd_completed_update(progress_data, j, finalName[j][1],
                                            req[j].language)
    /\ pc' = [pc EXCEPT ![j] = "done"]
    /\ req' = [req EXCEPT ![j] = NoReq]
    /\ UNCHANGED <<cleanup_task, service, FFMPEG_AVAILABLE, now, nextId, download_progress, shared,
                   toolSteps, accepted, toolOutcome, finalName>>

VdNext ==
    \/ \E url \in Urls \ {""}, format_choice \in Formats, language \in Languages :
           vd_download_video_start(url, format_choice, language)
    \/ \E id \in DOMAIN progress_data \cup {StaleId} : vd_get_progress_request(id)
    \/ \E j \in JobIds, diag \in Diags : vd_tool_raise(j, diag)
    \/ \E j \in JobIds : \E d \in Payloads(j) : vd_tool_callback(j, d)
    \/ \E j \in JobIds : vd_locate_and_move(j)
    \/ \E j \in JobIds : vd_complete(j)

\* ------------------------------ app.py: the synchronous download endpoint
\* utils.py sanitize_filename on a title given as its characters
IllegalChars == {"/", "\\", ":", "*", "?", "\"", "<", ">", "|"}
MaxNameLen == 200

\* os.path.splitext: the extension starts at the last period that is not
\* the first character
LastDot(name) ==
    LET dots == {i \in 2..Len(name) : name[i] = "."}
    IN IF dots = {} THEN 0 ELSE CHOOSE i \in dots : \A k \in dots : k <= i

sanitize_filename(filename) ==
    LET replaced == [i \in 1..Len(filename) |->
                        IF filename[i] \in IllegalChars THEN "_" ELSE filename[i]]
        dot == LastDot(replaced)
        name == IF dot = 0 THEN replaced ELSE SubSeq(replaced, 1, dot - 1)
        ext == IF dot = 0 THEN <<>> ELSE SubSeq(replaced, dot, Len(replaced))
    IN IF Len(replaced) > MaxNameLen
       THEN SubSeq(name, 1, MaxNameLen) \o ext
       ELSE replaced

\* info.get('title') of extract_info, as characters
InfoTitle(url) == <<"A", ":">>

\* str(uuid.uuid4())[:8] of the request that got id j
FileUuid(j) == "uuid" \o ToString(j)

\* the extension download_audio / download_video expect
ExpectedExt(format) == IF format = "mp3" THEN ".mp3" ELSE ".mp4"

Failed(code, message) ==
    [handler |-> "download_content", code |-> code, download_id |-> NoId,
     body |-> <<[error |-> message]>>]
Served(mode, name) ==
    [handler |-> "download_content", code |-> 200, download_id |-> NoId,
     body |-> <<[mode |-> mode, name |-> name]>>]

\* POST /download/: lines 82-112 of app.py with lines 36-55 of download.py
\* (download_audio; download_video lines 108-127): validation, then
\* extract_info returns the title or raises
app_download_content(url, format) ==
    /\ service = "app"
    /\ Serving
    /\ LoopFree
    /\ IF url = "" THEN
           /\ response' = Failed(400, "zh: url must not be empty")
           /\ UNCHANGED <<nextId, req, pc, toolOutcome>>
       ELSE IF format \notin {"mp3", "mp4"} THEN
           /\ response' = Failed(400, "zh: format must be mp3 or mp4")
           /\ UNCHANGED <<nextId, req, pc, toolOutcome>>
       ELSE
           /\ nextId <= MaxJobs
           /\ nextId' = nextId + 1
           /\ \E info \in {"ok"} \cup Diags :
                IF info = "ok" THEN
                    /\ pc' = [pc EXCEPT ![nextId] = "tool"]
                    /\ req' = [req EXCEPT ![nextId] =
                           [url |-> url, format |-> format, language |-> ""]]
                    /\ toolOutcome' = [toolOutcome EXCEPT ![nextId] = Outcome("in_flight", "")]
                    /\ response' = NoResponse
                ELSE
                    /\ pc' = [pc EXCEPT ![nextId] = "done"]
                    /\ toolOutcome' = [toolOutcome EXCEPT ![nextId] = Outcome("raised", info)]
                    /\ response' = Failed(500, info)
                    /\ req' = req
    /\ UNCHANGED <<cleanup_task, service, FFMPEG_AVAILABLE, now, download_progress, progress_data,
                   tempdir, shared, toolSteps, accepted, finalName>>

\* the yt-dlp process of subprocess.run (download.py 72 and 144) writes a
\* file of the output template, which lies directly in the download directory
app_tool_write(j, ext) ==
    /\ service = "app"
    /\ pc[j] = "tool"
    /\ toolSteps > 0
    /\ toolSteps' = toolSteps - 1
    /\ LET name == FileName(FileUuid(j), sanitize_filename(InfoTitle(req[j].url)), ext)
       IN /\ \A g \in shared : g.name # name
          /\ shared' = Put(shared, [name |-> name, owner |-> j, complete |-> FALSE,
                                   mtime |-> now])
    /\ response' = NoResponse
    /\ UNCHANGED <<cleanup_task, service, FFMPEG_AVAILABLE, now, nextId, req, pc, download_progress,
                   progress_data, tempdir, accepted, toolOutcome, finalName>>

\* subprocess.run returns; lines 74-93 (146-165) of download.py and lines
\* 114-145 of app.py: a non-zero return code raises, otherwise the expected
\* path or the first entry with the uuid prefix is served
app_tool_exit(j, returncode, mode) ==
    /\ service = "app"
    /\ pc[j] = "tool"
    /\ pc' = [pc EXCEPT ![j] = "done"]
    /\ req' = [req EXCEPT ![j] = NoReq]
    /\ IF returncode # 0 THEN
           /\ toolOutcome' = [toolOutcome EXCEPT ![j] = Outcome("raised", "stderr")]
           /\ response' = Failed(500, "stderr")
           /\ UNCHANGED <<shared, finalName>>
       ELSE
           LET finished == {IF g.owner = j THEN [g EXCEPT !.complete = TRUE] ELSE g :
                               g \in shared}
               expected == FileName(FileUuid(j),
                               sanitize_filename(InfoTitle(req[j].url)),
                               ExpectedExt(req[j].format))
               prefixed == {g.name : g \in {h \in finished : h.name.prefix = FileUuid(j)}}
           IN /\ toolOutcome' = [toolOutcome EXCEPT ![j] = Outcome("returned", "")]
              /\ shared' = finished
              /\ IF expected \in prefixed THEN
                     /\ response' = Served(mode, expected)
                     /\ finalName' = [finalName EXCEPT ![j] = <<expected>>]
                 ELSE IF prefixed # {} THEN
                     \E name \in prefixed :
                         /\ response' = Served(mode, name)
                         /\ finalName' = [finalName EXCEPT ![j] = <<name>>]
                 ELSE
                     /\ response' = Failed(500, "FileNotFoundError")
                     /\ finalName' = finalName
    /\ UNCHANGED <<cleanup_task, service, FFMPEG_AVAILABLE, now, nextId, download_progress,
                   progress_data, tempdir, toolSteps, accepted>>

\* ------------------------------------------------- the file endpoints
\* utils.py is_safe_filename, lines 168-184, on a name given as its characters
Letters ==
    {"a", "b", "c", "d", "e", "f", "g", "h", "i", "j", "k", "l", "m",
     "n", "o", "p", "q", "r", "s", "t", "u", "v", "w", "x", "y", "z",
     "A", "B", "C", "D", "E", "F", "G", "H", "I", "J", "K", "L", "M",
     "N", "O", "P", "Q", "R", "S", "T", "U", "V", "W", "X", "Y", "Z"}
Digits == {"0", "1", "2", "3", "4", "5", "6", "7", "8", "9"}

\* "." "." somewhere in the name
HasDotDot(filename) ==
    \E i \in 1..(Len(filename) - 1) : filename[i] = "." /\ filename[i + 1] = "."

\* re.match(r'^[a-zA-Z0-9_\-\.]+$', filename): the $ also matches before a
\* newline that ends the string
is_safe_filename(filename) ==
    IF \/ HasDotDot(filename)
       \/ \E i \in 1..Len(filename) : filename[i] \in {"/", "\\"}
    THEN FALSE
    ELSE LET matched == IF Len(filename) > 0 /\ filename[Len(filename)] = "\n"
                        THEN SubSeq(filename, 1, Len(filename) - 1)
                        ELSE filename
         IN /\ Len(matched) > 0
            /\ \A i \in 1..Len(matched) :
                   matched[i] \in Letters \cup Digits \cup {"_", "-", "."}

\* the characters of str(n)
RECURSIVE DigitsOf(_)
DigitsOf(n) ==
    IF n < 10 THEN <<ToString(n)>> ELSE DigitsOf(n \div 10) \o <<ToString(n % 10)>>

\* the characters of the parts of a file name of the download directory
PrefixText(prefix) ==
    IF service = "app"
    THEN <<"u", "u", "i", "d">> \o DigitsOf(CHOOSE j \in JobIds : FileUuid(j) = prefix)
    ELSE DigitsOf(CHOOSE n \in 0..MaxTime : ToString(n) = prefix)
StemText(stem) ==
    IF service = "app" THEN stem
    ELSE IF stem = "titleA" THEN <<"t", "i", "t", "l", "e", "A">>
    ELSE <<"t", "i", "t", "l", "e", "B">>
ExtText(ext) ==
    IF ext = ".mp3" THEN <<".", "m", "p", "3">>
    ELSE IF ext = ".mp4" THEN <<".", "m", "p", "4">>
    ELSE IF ext = ".MP4" THEN <<".", "M", "P", "4">>
    ELSE <<".", "w", "e", "b", "m">>
FileNameText(name) ==
    PrefixText(name.prefix) \o <<"_">> \o StemText(name.stem) \o ExtText(name.ext)

\* the {filename} of a request: the name of a file of the download directory,
\* the parent directory, or a name that no file has
DotDot == <<".", ".">>
RequestNames ==
    {FileNameText(g.name) : g \in shared} \cup {DotDot, <<"a", " ", "b">>}

\* os.path.exists(os.path.join(DOWNLOAD_DIR, filename))
PathExists(filename) ==
    filename = DotDot \/ \E g \in shared : FileNameText(g.name) = filename

FileAnswer(handler, code) ==
    [handler |-> handler, code |-> code, download_id |-> NoId, body |-> <<>>]

\* GET /api/download/{filename}: lines 275-285 of main.py; FileResponse
\* raises for a path that is not a regular file
main_download_file(filename) ==
    /\ service = "main"
    /\ LoopFree
    /\ response' = IF ~PathExists(filename) THEN FileAnswer("download_file", 404)
                   ELSE IF filename = DotDot THEN FileAnswer("download_file", 500)
                   ELSE FileAnswer("download_file", 200)
    /\ UNCHANGED <<cleanup_task, service, FFMPEG_AVAILABLE, now, nextId, download_progress,
                   progress_data, shared, accepted, jobVars>>

\* DELETE /api/files/{filename}: lines 311-322 of main.py; os.remove raises
\* for a directory
main_delete_file(filename) ==
    /\ service = "main"
    /\ LoopFree
    /\ IF ~PathExists(filename) THEN
           /\ response' = FileAnswer("delete_file", 404)
           /\ shared' = shared
       ELSE IF filename = DotDot THEN
           /\ response' = FileAnswer("delete_file", 500)
           /\ shared' = shared
       ELSE
           /\ response' = FileAnswer("delete_file", 200)
           /\ shared' = {g \in shared : FileNameText(g.name) # filename}
    /\ UNCHANGED <<cleanup_task, service, FFMPEG_AVAILABLE, now, nextId, download_progress,
                   progress_data, accepted, jobVars>>

\* the {filename} of a request to app.py: also a name of the allowed
\* characters that no file has, a name that ends in a line feed (%0A in the
\* URL) and a name with a backslash
GetFileNames ==
    RequestNames \cup {<<"a">>, <<"a", "\n">>, <<"a", "\\", "b">>}

\* GET /download/file/{filename}: lines 147-178 of app.py; a name that passed
\* is_safe_filename has no separator and no "..", so it resolves inside
\* DOWNLOAD_DIR and the 403 of lines 165-166 is not taken
app_get_file(filename) ==
    /\ service = "app"
    /\ Serving
    /\ LoopFree
    /\ response' = IF ~is_safe_filename(filename) THEN FileAnswer("get_file", 400)
                   ELSE IF \E g \in shared : FileNameText(g.name) = filename
                   THEN FileAnswer("get_file", 200)
                   ELSE FileAnswer("get_file", 404)
    /\ UNCHANGED <<cleanup_task, service, FFMPEG_AVAILABLE, now, nextId, download_progress,
                   progress_data, shared, accepted, jobVars>>

\* ------------------------------------------------ utils.py: the sweeper
\* an entry of os.listdir(directory): a regular file or a directory
Entry(name, kind, mtime) == [name |-> name, kind |-> kind, mtime |-> mtime]

\* the entries of DOWNLOAD_DIR: its regular files and, in main.py and
\* download.py, the temp directories of the jobs, named by the download id
Listing ==
    {Entry(g.name, "file", g.mtime) : g \in shared}
    \cup {Entry(FileName("", ToString(j), ""), "dir", 0) :
              j \in {k \in JobIds : tempdir[k] # <<>>}}

\* variant of IsFile that takes every entry for a regular file
IsFile_any(e) == TRUE

\* os.path.isfile(file_path), line 33 of utils.py
IsFile(e) ==
    e.kind = "file"

\* variant of Expired that also takes a file whose age equals the maximum
Expired_at_limit(e, current_time, max_age_seconds) ==
    current_time - e.mtime >= max_age_seconds

\* lines 36-37 of utils.py: file_age > max_age_seconds
Expired(e, current_time, max_age_seconds) ==
    current_time - e.mtime > max_age_seconds

\* variant of Removed that gives up at the first file os.remove fails on
Removed_until_failure(eligible, unremovable) ==
    IF \E e \in eligible : e.name \in unremovable THEN {} ELSE eligible

\* lines 38-43 of utils.py: os.remove of each eligible file in its own try;
\* unremovable are the names os.remove raises for
Removed(eligible, unremovable) ==
    {e \in eligible : e.name \notin unremovable}

\* variant of clean_old_files that removes one file in a run
clean_old_files_one_per_run(directory, max_age_minutes, current_time, listdir_ok, unremovable) ==
    IF directory = <<>> \/ ~listdir_ok
    THEN [directory |-> directory, deleted |-> {}, failed |-> {}]
    ELSE LET eligible == {e \in directory[1] :
                             /\ IsFile(e)
                             /\ Expired(e, current_time, max_age_minutes * 60)
                             /\ e.name \notin unremovable}
             removed == IF eligible = {} THEN {} ELSE {CHOOSE e \in eligible : TRUE}
         IN [directory |-> <<directory[1] \ removed>>,
             deleted |-> {e.name : e \in removed},
             failed |-> {}]

\* utils.py clean_old_files, lines 11-47, on a directory given as <<>> (no
\* such directory) or <<its entries>>, when time.time() returns current_time
\* and os.listdir succeeds or raises: the directory it leaves, the names it
\* returns and the names of its "delete failed" log lines
clean_old_files(directory, max_age_minutes, current_time, listdir_ok, unremovable) ==
    IF directory = <<>> \/ ~listdir_ok
    THEN [directory |-> directory, deleted |-> {}, failed |-> {}]
    ELSE LET max_age_seconds == max_age_minutes * 60
             eligible == {e \in directory[1] :
                             IsFile(e) /\ Expired(e, current_time, max_age_seconds)}
             removed == Removed(eligible, unremovable)
         IN [directory |-> <<directory[1] \ removed>>,
             deleted |-> {e.name : e \in removed},
             failed |-> {e.name : e \in {f \in eligible : f.name \in unremovable}}]

\* what a sweep was asked for, returned and logged
Swept(handler, minutes, result, listdir_ok) ==
    [handler |-> handler, code |-> 200, download_id |-> NoId,
     body |-> <<[success |-> TRUE, deleted_files |-> result.deleted]>>,
     minutes |-> minutes, failed |-> result.failed, listdir_ok |-> listdir_ok]

\* the effect of a sweep of DOWNLOAD_DIR on the model's file system
sweep(handler, minutes, listdir_ok, unremovable) ==
    \E current_time \in now..MaxTime :
        LET result == clean_old_files(<<Listing>>, minutes, current_time,
                                      listdir_ok, unremovable)
        IN /\ now' = current_time
           /\ shared' = {g \in shared : g.name \notin result.deleted}
           /\ response' = Swept(handler, minutes, result, listdir_ok)

\* app.py line 54: max_age_minutes=30
max_age_minutes == 30

\* variant of schedule_file_cleanup that ends the task when the directory
\* cannot be read
schedule_file_cleanup_fragile(listdir_ok, unremovable) ==
    /\ service = "app"
    /\ cleanup_task = "sleeping"
    /\ LoopFree
    /\ sweep("schedule_file_cleanup", max_age_minutes, listdir_ok, unremovable)
    /\ cleanup_task' = IF listdir_ok THEN "sleeping" ELSE "failed"
    /\ UNCHANGED <<service, FFMPEG_AVAILABLE, nextId, download_progress,
                   progress_data, accepted, jobVars>>

\* lines 60-76 of utils.py: the timer of asyncio.sleep(interval_minutes * 60)
\* expires, the task resumes when the event loop is free, runs one sweep and
\* returns to the sleep of the next iteration
schedule_file_cleanup(listdir_ok, unremovable) ==
    /\ service = "app"
    /\ cleanup_task = "sleeping"
    /\ LoopFree
    /\ sweep("schedule_file_cleanup", max_age_minutes, listdir_ok, unremovable)
    /\ cleanup_task' = "sleeping"
    /\ UNCHANGED <<service, FFMPEG_AVAILABLE, nextId, download_progress,
                   progress_data, accepted, jobVars>>

\* GET /cleanup: lines 180-196 of app.py
trigger_cleanup(minutes, listdir_ok, unremovable) ==
    /\ service = "app"
    /\ Serving
    /\ LoopFree
    /\ sweep("trigger_cleanup", minutes, listdir_ok, unremovable)
    /\ UNCHANGED <<cleanup_task, service, FFMPEG_AVAILABLE, nextId, download_progress,
                   progress_data, accepted, jobVars>>

\* variant of ExceptException that catches every exception
ExceptException_bare(e) == TRUE

\* `except Exception as e:`, line 75 of utils.py: asyncio.CancelledError
\* derives from BaseException, not from Exception
ExceptException(e) ==
    e # "CancelledError"

\* lines 58-68 of app.py: cleanup_task.cancel() makes the await of the sleep
\* raise CancelledError in the task without waiting for the timer;
\* shutdown_event awaits the task
shutdown_event ==
    /\ service = "app"
    /\ Serving
    /\ LoopFree
    /\ IF ExceptException("CancelledError")
       THEN \* the loop logs the exception and sleeps again: the await of
            \* shutdown_event does not return
            /\ cleanup_task' = "sleeping"
            /\ response' = [handler |-> "shutdown_event", returned |-> FALSE,
                            raised |-> <<>>]
       ELSE \* the task ends cancelled; line 66 catches the CancelledError
            /\ cleanup_task' = "cancelled"
            /\ response' = [handler |-> "shutdown_event", returned |-> TRUE,
                            raised |-> <<>>]
    /\ UNCHANGED <<service, FFMPEG_AVAILABLE, now, nextId, download_progress,
                   progress_data, shared, accepted, jobVars>>

\* the ages a manual sweep is asked for
Minutes == {0, max_age_minutes}

\* the names os.remove raises for in one sweep; none is tried when os.listdir
\* has raised
Unremovable(listdir_ok) ==
    IF listdir_ok THEN SUBSET {g.name : g \in shared} ELSE {{}}

SweepNext ==
    \/ \E listdir_ok \in BOOLEAN : \E unremovable \in Unremovable(listdir_ok) :
           schedule_file_cleanup(listdir_ok, unremovable)
    \/ \E minutes \in Minutes, listdir_ok \in BOOLEAN :
           \E unremovable \in Unremovable(listdir_ok) :
               trigger_cleanup(minutes, listdir_ok, unremovable)
    \/ shutdown_event

\* the sweeps of the download directory, as the handler of a response
SweepHandlers == {"trigger_cleanup", "schedule_file_cleanup"}

AppNext ==
    \/ \E url \in Urls, format \in Formats : app_download_content(url, format)
    \/ \E j \in JobIds : \E ext \in ToolExts(req[j].format) : app_tool_write(j, ext)
    \/ \E j \in JobIds, returncode \in {0, 1}, mode \in {"direct", "json"} :
           app_tool_exit(j, returncode, mode)
    \/ \E filename \in GetFileNames : app_get_file(filename)

MainNext ==
    \/ \E url \in Urls, format_choice \in Formats : main_download_video(url, format_choice)
    \/ \E id \in DOMAIN download_progress \cup {StaleId} : main_get_progress_request(id)
    \/ \E j \in JobIds : main_background_start(j)
    \/ \E j \in JobIds, diag \in Diags : main_tool_raise(j, diag)
    \/ \E j \in JobIds : \E d \in Payloads(j) : main_tool_callback(j, d)
    \/ \E j \in JobIds : main_locate_and_move(j)
    \/ \E j \in JobIds : main_complete(j)
    \/ \E filename \in RequestNames : main_download_file(filename)
    \/ \E filename \in RequestNames : main_delete_file(filename)

ToolNext ==
    \/ \E j \in JobIds : \E ext \in ToolExts(req[j].format) : tool_write(j, ext)
    \/ \E j \in JobIds : tool_return(j)

Next == MainNext \/ VdNext \/ AppNext \/ ToolNext \/ SweepNext

Spec == Init /\ [][Next]_vars

\* the steps of job j that the scheduler and the tool owe it: the task is
\* started, the tool invocation returns or raises, the task runs to its end
JobStep(j) ==
    \/ main_background_start(j)
    \/ tool_return(j)
    \/ \E diag \in Diags : main_tool_raise(j, diag) \/ vd_tool_raise(j, diag)
    \/ main_locate_and_move(j) \/ main_complete(j)
    \/ vd_locate_and_move(j) \/ vd_complete(j)
    \/ \E returncode \in {0, 1}, mode \in {"direct", "json"} :
           app_tool_exit(j, returncode, mode)

FairSpec == Spec /\ \A j \in JobIds : WF_vars(JobStep(j))

\* ------------------------------------------------------------ properties
\* the registry of the running revision
Registry ==
    IF service = "main" THEN download_progress
    ELSE IF service = "vd" THEN progress_data
    ELSE <<>>

Terminal(status) == status \in {"completed", "error"}

TypeOK == service \in Services

\* C1: every job whose creation returned its id eventually has ended with a
\* record whose status is completed or error, given that the tool invocation
\* returns or raises and that the task is scheduled.
C1_AcceptedJobEventuallyTerminal ==
    \A j \in JobIds :
        (j \in accepted) ~>
            (pc[j] = "done" /\ j \in DOMAIN Registry /\ Terminal(Registry[j].status))

C1_Witness ==
    \E j \in accepted :
        /\ pc[j] = "done"
        /\ toolOutcome[j].result = "returned"
        /\ Registry[j].status = "error"

\* C2: completed and error are terminal: no step changes the status of a
\* record whose status is completed or error.
C2_TerminalStatusNeverChanges ==
    [][\A j \in DOMAIN Registry :
          Terminal(Registry[j].status) => Registry'[j].status = Registry[j].status]_vars

\* C3: a record with status completed belongs to a job whose tool invocation
\* returned, whose file was moved out of its temp directory under the final
\* name, and carries the result with that name and its retrieval url; and the
\* file lies in the download directory before the status is set.
C3_CompletedHasMovedFile ==
    /\ [](\A j \in DOMAIN Registry :
            Registry[j].status = "completed" =>
                /\ toolOutcome[j].result = "returned"
                /\ finalName[j] # <<>>
                /\ Len(Registry[j].file) = 1
                /\ Registry[j].file[1].name = finalName[j][1]
                /\ Registry[j].file[1].url = <<"/api/download/", finalName[j][1]>>)
    /\ [][\A j \in DOMAIN Registry :
            (Registry'[j].status = "completed" /\ Registry[j].status # "completed") =>
                \E g \in shared : g.name = finalName[j][1] /\ g.owner = j /\ g.complete]_vars

C3_Witness ==
    \E j \in DOMAIN Registry :
        /\ Registry[j].status = "completed"
        /\ \E g \in shared : g.name = Registry[j].file[1].name

\* C4: when the tool invocation returned and the temp directory of the job is
\* empty, the task ends with status error and the no-file-found message, adds
\* nothing to the download directory, and the record of an ended task never
\* changes again (so it never becomes completed).
C4_NoFileFoundIsError ==
    /\ [][\A j \in JobIds :
            (pc[j] = "locate" /\ tempdir[j] = <<{}>> /\ pc'[j] # "locate") =>
                /\ pc'[j] = "done"
                /\ Registry'[j].status = "error"
                /\ Registry'[j].message = (IF Registry[j].language = "zh"
                       THEN "zh: download completed but no file found"
                       ELSE "Download completed but no file found")
                /\ shared' = shared]_vars
    /\ [][\A j \in DOMAIN Registry :
            pc[j] = "done" => (pc'[j] = "done" /\ Registry'[j] = Registry[j])]_vars

C4_Witness ==
    \E j \in DOMAIN Registry :
        /\ pc[j] = "done"
        /\ toolOutcome[j].result = "returned"
        /\ tempdir[j] = <<{}>>
        /\ Registry[j].status = "error"
        /\ Registry[j].message = "Download completed but no file found"

C6_PollAnsweredWhileJobRuns ==
    \A j \in JobIds :
        Running(j) =>
            \A id \in DOMAIN Registry :
                ENABLED (main_get_progress_request(id) \/ vd_get_progress_request(id))

\* C7: two jobs never get the same final file name.
C7_FinalNamesDistinct ==
    \A j1, j2 \in JobIds :
        (j1 # j2 /\ finalName[j1] # <<>> /\ finalName[j2] # <<>>) =>
            finalName[j1] # finalName[j2]

\* C8: every regular file directly in the download directory is finished;
\* the files of a tool invocation in flight are not among them.
C8_NoPartialFileInDownloadDir ==
    \A g \in shared : g.complete /\ toolOutcome[g.owner].result # "in_flight"

\* C9: a progress callback that carries a download id without a record does
\* not raise, leaves the registry unchanged and leaves the job running.
C9_UnknownIdCallbackIsNoOp ==
    [][\A j \in JobIds : \A d \in Payloads(j) :
          (d.id = StaleId /\ (main_tool_callback(j, d) \/ vd_tool_callback(j, d))) =>
              (Registry' = Registry /\ pc'[j] = "tool")]_vars

\* C10: the record of an accepted job exists in every later state: a poll of
\* an accepted id is never answered not_found, and no step removes a record.
C10_AcceptedJobAlwaysHasRecord ==
    /\ [](\A j \in accepted :
            /\ j \in DOMAIN Registry
            /\ (IF service = "main" THEN main_get_progress(j)
                ELSE vd_get_progress(j)).status # "not_found")
    /\ [](response.handler = "get_progress" =>
            (response.download_id \in accepted =>
                 response.body[1].status # "not_found"))
    /\ [][DOMAIN Registry \subseteq DOMAIN Registry']_vars

C10_Witness ==
    /\ response.handler = "get_progress"
    /\ response.download_id \in accepted
    /\ pc[response.download_id] = "done"
    /\ response.body[1].status = "error"

\* C11: a creation request with an empty URL or with a format outside
\* {mp3, mp4} is rejected before any job is created: it adds no record,
\* starts no task and returns no job id.
C11_InvalidRequestCreatesNoJob ==
    [][\A url \in Urls, format \in Formats :
          ((url = "" \/ format \notin {"mp3", "mp4"})
              /\ (main_download_video(url, format) \/ app_download_content(url, format)))
          => (/\ Registry' = Registry
              /\ pc' = pc
              /\ accepted' = accepted
              /\ response'.download_id = NoId)]_vars

\* C12: when ffmpeg is absent, an mp3 request is turned down in the step that
\* receives it: the tool is not invoked for it and, where the creation
\* endpoint is part of the revision, it returns no job id.
C12_AudioFailsFastWithoutFfmpeg ==
    [][\A url \in Urls \ {""} :
          (/\ ~FFMPEG_AVAILABLE
           /\ \/ main_download_video(url, "mp3")
              \/ app_download_content(url, "mp3")
              \/ \E language \in Languages : vd_download_video_start(url, "mp3", language))
          => \A j \in JobIds :
                 (pc[j] = "new" /\ pc'[j] # "new") =>
                     /\ toolOutcome'[j].result = "none"
                     /\ pc'[j] \notin RunningPcs \cup {"queued"}
                     /\ service = "main" =>
                            (response'.download_id = NoId /\ j \notin accepted')]_vars

\* f"{x:.1f}%" of a number given in tenths
Render(tenths) == ToString(tenths \div 10) \o "." \o ToString(tenths % 10) \o "%"

\* the number of tenths a stored percent stands for
PercentTenths(percent) ==
    IF percent = "0%" THEN 0
    ELSE IF percent = "100%" THEN 1000
    ELSE CHOOSE t \in 0..(1000 * MaxBytes) : Render(t) = percent

Abs(x) == IF x < 0 THEN -x ELSE x

\* C13: a created job has status starting and percent "0%"; a downloading
\* callback with a total above zero sets status downloading and the percent
\* to downloaded/total*100 rounded to one decimal (50 of 100 is "50.0%"); a
\* finished callback sets status processing and percent "100%".
C13_ProgressMapping ==
    /\ [](Fmt1(50, 100) = "50.0%")
    /\ [][\A j \in JobIds :
            (j \notin DOMAIN Registry /\ j \in DOMAIN Registry'
                 /\ pc'[j] \in RunningPcs \cup {"queued", "rejected"}) =>
                (Registry'[j].status = "starting" /\ Registry'[j].percent = "0%")]_vars
    /\ [](\A j \in DOMAIN Registry :
            pc[j] = "tool" =>
            \A d \in {p \in Payloads(j) : p.id = j} :
                LET hooked == IF service = "main"
                              THEN main_progress_hook(Registry, d).reg[j]
                              ELSE vd_progress_hook(Registry, d).reg[j]
                IN /\ (d.status = "downloading" /\ TotalBytes(d) > 0) =>
                       /\ hooked.status = "downloading"
                       /\ \E t \in {(1000 * d.downloaded_bytes) \div TotalBytes(d) + k :
                                       k \in {0, 1}} :
                            /\ 2 * Abs(t * TotalBytes(d) - 1000 * d.downloaded_bytes)
                                   <= TotalBytes(d)
                            /\ hooked.percent = Render(t)
                   /\ d.status = "finished" =>
                       /\ hooked.status = "processing"
                       /\ hooked.percent = "100%")

C13_Witness ==
    \E j \in DOMAIN Registry :
        /\ pc[j] = "tool"
        /\ Registry[j].status = "downloading"
        /\ Registry[j].percent = "100.0%"

\* C14: the first downloading callback of a job in status starting moves it
\* to downloading whatever total it reports, and leaves the percent as it is
\* when the total is zero or unknown.
C14_FirstCallbackEntersDownloading ==
    [][\A j \in JobIds : \A d \in Payloads(j) :
          (/\ d.id = j
           /\ d.status = "downloading"
           /\ j \in DOMAIN Registry
           /\ Registry[j].status = "starting"
           /\ (main_tool_callback(j, d) \/ vd_tool_callback(j, d)))
          => /\ Registry'[j].status = "downloading"
             /\ TotalBytes(d) \in {None, 0} =>
                    Registry'[j].percent = Registry[j].percent]_vars

\* C15: while the status of a job is downloading, no step lowers its percent.
C15_PercentMonotonicWhileDownloading ==
    [][\A j \in DOMAIN Registry :
          (Registry[j].status = "downloading" /\ Registry'[j].status = "downloading") =>
              PercentTenths(Registry'[j].percent) >= PercentTenths(Registry[j].percent)]_vars

\* C16: a job in processing stays in processing with percent "100%" until it
\* is completed or error, and a job that left starting never returns to it.
C16_StatusOnlyMovesForward ==
    [][\A j \in DOMAIN Registry :
          /\ Registry[j].status = "processing" =>
                 /\ Registry'[j].status \in {"processing", "completed", "error"}
                 /\ Registry'[j].status = "processing" => Registry'[j].percent = "100%"
          /\ Registry[j].status = "downloading" => Registry'[j].status # "starting"]_vars

\* C17: a record that has the 'file' entry has status completed.
C17_ResultOnlyWhenCompleted ==
    \A j \in DOMAIN Registry :
        Registry[j].file # <<>> => Registry[j].status = "completed"

C17_Witness ==
    \E j \in DOMAIN Registry :
        /\ pc[j] = "done"
        /\ Registry[j].status = "completed"
        /\ Len(Registry[j].file) = 1
        /\ Registry[j].file[1].url = UrlOf(Registry[j].file[1].name)

\* C18: a step of one job (a callback, a finalization step, an error handler
\* or the start of its task) leaves the record of every other job unchanged.
C18_OtherRecordsUntouched ==
    [][\A j \in JobIds :
          (pc[j] \in RunningPcs \/ (pc[j] = "queued" /\ pc'[j] # "queued")) =>
              \A k \in DOMAIN Registry \ {j} : Registry'[k] = Registry[k]]_vars

C18_Witness ==
    \E j, k \in DOMAIN Registry :
        /\ j # k
        /\ pc[j] = "tool"
        /\ Registry[j].status = "processing"
        /\ pc[k] = "queued"
        /\ Registry[k].status = "starting"

\* C19 (as stated): the name of the result of a completed job ends with
\* ".mp3" for an mp3 request and ".mp4" for an mp4 request.
C19_FinalNameHasEnforcedExtension ==
    [][\A j \in DOMAIN Registry :
          (Registry'[j].status = "completed" /\ Registry[j].status # "completed") =>
              /\ req[j].format = "mp3" => Registry'[j].file[1].name.ext = ".mp3"
              /\ req[j].format = "mp4" => Registry'[j].file[1].name.ext = ".mp4"]_vars

\* C19 (amended): the name of the result of a completed job ends with the
\* extension of the requested format up to letter case; an extension of the
\* tool's file that differs from it only in case is kept as it is.
C19_FinalNameHasEnforcedExtensionIgnoringCase ==
    [][\A j \in DOMAIN Registry :
          (Registry'[j].status = "completed" /\ Registry[j].status # "completed") =>
              /\ req[j].format = "mp3" => Lower(Registry'[j].file[1].name.ext) = ".mp3"
              /\ req[j].format = "mp4" => Lower(Registry'[j].file[1].name.ext) = ".mp4"]_vars

C19_Witness ==
    \E j \in DOMAIN Registry :
        /\ Registry[j].status = "completed"
        /\ Registry[j].file[1].name.ext = ".MP4"
        /\ \E g \in shared : g.name = Registry[j].file[1].name /\ g.owner = j

\* C20: a retrieval or deletion request whose filename fails is_safe_filename
\* is turned down with a 400 or 403, not a 404, and leaves every file of the
\* download directory in place.
C20_UnsafeNameRejectedAtBoundary ==
    [][\A filename \in RequestNames :
          (/\ ~is_safe_filename(filename)
           /\ \/ main_download_file(filename)
              \/ main_delete_file(filename)
              \/ app_get_file(filename))
          => (response'.code \in {400, 403} /\ shared' = shared)]_vars

\* C21: the validator of the retrieval endpoint lets a filename through (the
\* answer is not the 400 of an invalid name) exactly when the name is not
\* empty, every one of its characters is a letter, a digit, an underscore, a
\* hyphen or a period, and it does not contain "..".
C21_ValidatorAcceptsExactlySafeNames ==
    [][\A filename \in GetFileNames :
          app_get_file(filename) =>
              (response'.code # 400 <=>
                  /\ Len(filename) > 0
                  /\ \A i \in 1..Len(filename) :
                         filename[i] \in Letters \cup Digits \cup {"_", "-", "."}
                  /\ ~HasDotDot(filename))]_vars

\* C22: one sweep with maximum age A, when the directory can be read and no
\* deletion fails, removes exactly the regular files of the directory whose
\* age at the sweep's clock reading exceeds A, keeps every file whose age is
\* within A and every entry that is not a regular file, and returns exactly
\* the names of the files it removed.
C22_SweepDeletesExactlyExpiredFiles ==
    /\ [][(/\ response'.handler \in SweepHandlers
           /\ response'.listdir_ok
           /\ response'.failed = {})
          => /\ shared' = {g \in shared : now' - g.mtime <= response'.minutes * 60}
             /\ response'.body[1].deleted_files = {g.name : g \in shared \ shared'}
             /\ tempdir' = tempdir]_vars
    /\ [](\A minutes \in Minutes, current_time \in now..MaxTime :
             LET result == clean_old_files(<<Listing>>, minutes, current_time, TRUE, {})
                 expired == {e \in Listing :
                                e.kind = "file" /\ current_time - e.mtime > minutes * 60}
             IN /\ result.directory = <<Listing \ expired>>
                /\ result.deleted = {e.name : e \in expired})

C22_Witness ==
    /\ response.handler = "trigger_cleanup"
    /\ response.listdir_ok
    /\ response.failed = {}
    /\ response.body[1].deleted_files # {}
    /\ \E g \in shared : now - g.mtime = response.minutes * 60

\* C23, as stated: when two sweeps with the same maximum age follow one
\* another and no file is added between them, the second one deletes nothing.
C23_SecondSweepDeletesNothing ==
    [][(/\ response.handler \in SweepHandlers
        /\ response'.handler \in SweepHandlers
        /\ response'.minutes = response.minutes)
       => response'.body[1].deleted_files = {}]_vars

\* C23, amended: when two sweeps with the same maximum age follow one
\* another, the first one has read the directory and failed on no deletion,
\* and the second one reads the same time as the first, the second one
\* deletes nothing.
C23_SecondSweepAtSameTimeDeletesNothing ==
    [][(/\ response.handler \in SweepHandlers
        /\ response.listdir_ok
        /\ response.failed = {}
        /\ response'.handler \in SweepHandlers
        /\ response'.minutes = response.minutes
        /\ now' = now)
       => (response'.body[1].deleted_files = {} /\ shared' = shared)]_vars

C23_Witness ==
    /\ response.handler \in SweepHandlers
    /\ response.listdir_ok
    /\ response.failed = {}
    /\ response.body[1].deleted_files # {}
    /\ shared # {}
    /\ ENABLED trigger_cleanup(response.minutes, TRUE, {})

\* C24: a sweep that fails to delete a file goes on: every other file whose
\* age exceeds the maximum is deleted and returned, and the file whose
\* deletion failed stays in the directory and is not returned.
C24_DeletionFailureDoesNotAbortSweep ==
    [][(response'.handler \in SweepHandlers /\ response'.listdir_ok)
       => LET expired == {g \in shared : now' - g.mtime > response'.minutes * 60}
              failing == {g \in expired : g.name \in response'.failed}
          IN /\ response'.failed \subseteq {g.name : g \in expired}
             /\ shared' = (shared \ expired) \cup failing
             /\ response'.body[1].deleted_files = {g.name : g \in expired \ failing}]_vars

C24_Witness ==
    /\ response.handler \in SweepHandlers
    /\ response.failed # {}
    /\ response.body[1].deleted_files # {}
    /\ \A name \in response.failed : \E g \in shared : g.name = name

\* the turn the event loop owes the task of schedule_file_cleanup: its timer
\* expires and the task resumes once the loop is free
SweeperStep ==
    \E listdir_ok \in BOOLEAN : \E unremovable \in Unremovable(listdir_ok) :
        schedule_file_cleanup(listdir_ok, unremovable)

\* app.py with its sweeper, every job step and every sweeper step taken in
\* the end
SweeperInit == Init /\ service = "app"
SweeperNext == AppNext \/ SweepNext
SweeperSpec ==
    /\ SweeperInit
    /\ [][SweeperNext]_vars
    /\ \A j \in JobIds : WF_vars(JobStep(j))
    /\ WF_vars(SweeperStep)

\* C25: the periodic sweeper survives every cycle: after each cycle, also one
\* whose directory read or whose deletions failed, the task waits in the sleep
\* of its next iteration and its next cycle can run as soon as the event loop
\* is free; unless the task is cancelled, a sweep of the task always occurs
\* again.
C25_SweeperSurvivesFailingCycles ==
    /\ [][response'.handler = "schedule_file_cleanup" => cleanup_task' = "sleeping"]_vars
    /\ []((cleanup_task = "sleeping" /\ LoopFree) => ENABLED SweeperStep)
    /\ []<>(cleanup_task = "cancelled" \/ response.handler = "schedule_file_cleanup")

C25_Witness ==
    /\ cleanup_task = "sleeping"
    /\ response.handler = "schedule_file_cleanup"
    /\ ~response.listdir_ok
    /\ shared # {}

\* C26: the shutdown that cancels the periodic sweeper ends the task in the
\* same step, without waiting for the timer of its sleep, and returns without
\* raising; no sweep runs once the task is cancelled.
C26_CancelStopsSweeperCleanly ==
    /\ [][response'.handler = "shutdown_event" =>
             /\ cleanup_task = "sleeping"
             /\ cleanup_task' = "cancelled"
             /\ response'.returned
             /\ response'.raised = <<>>]_vars
    /\ [][cleanup_task = "cancelled" =>
             (cleanup_task' = "cancelled" /\ shared' = shared
                 /\ response'.handler \notin SweepHandlers)]_vars
    /\ [](cleanup_task = "cancelled" => ~ENABLED SweepNext)

C26_Witness ==
    /\ cleanup_task = "cancelled"
    /\ response.handler = "shutdown_event"
    /\ response.returned
    /\ shared # {}

\* C27: a creation request that is turned down with a 400 (empty URL, audio
\* without the transcoder, unknown format) leaves the registry with the
\* records it had and the download directory with the temp directories it
\* had.
C27_RejectedRequestChangesNothing ==
    [][(/\ response'.handler \in {"download_video", "download_content"}
        /\ response'.code = 400)
       => (DOMAIN Registry' = DOMAIN Registry /\ tempdir' = tempdir
              /\ shared' = shared)]_vars

\* C28: a job that has ended with a completed or error record has no temp
\* directory left under the download directory.
C28_TerminalJobHasNoTempDir ==
    \A j \in JobIds :
        (/\ pc[j] = "done"
         /\ j \in DOMAIN Registry
         /\ Terminal(Registry[j].status))
        => tempdir[j] = <<>>

====
